---------------------------- MODULE Spec2Model ----------------------------
(***************************************************************************)
(* Model of the crash-curve client: CanvasManager (the drawing surface and *)
(* its performance profile), RocketCurve (the bounded trajectory buffer)   *)
(* and ExplosionParticles (the decaying particle burst) of                 *)
(* src/client/js/canvas.js; UIManager (the bet panel) of                   *)
(* src/unnamed/part_000; SocketManager (the connection and its event       *)
(* emitter) of src/client/js/socket.js.                                    *)
(*                                                                         *)
(* Numbers.  JavaScript numbers are modelled as exact fixed-point values:  *)
(*   time        in 1/TimeUnit seconds      (TimeUnit = 10)                *)
(*   multiplier  in 1/MultUnit              (MultUnit = 100)               *)
(*   lengths     in CSS pixels; the layout boxes and samples are chosen so *)
(*               that every division of addPoint is exact                  *)
(*   life, decay in 1/LifeUnit              (LifeUnit = 100000)            *)
(*   Math.random() in 1/RandUnit            (RandUnit = 1000)              *)
(*   devicePixelRatio, ctx scale in 1/DprUnit (DprUnit = 2)                *)
(*   money       in 1/MoneyUnit             (MoneyUnit = 100)              *)
(***************************************************************************)
EXTENDS Integers, Sequences, FiniteSets, TLC

VARIABLES
    navigator,            \* [hardwareConcurrency, deviceMemory]: device signals
    innerWidth,           \* window.innerWidth
    devicePixelRatio,     \* window.devicePixelRatio
    rect,                 \* canvas.getBoundingClientRect(): the layout box
    width, height, dpr,   \* CanvasManager fields
    performanceSettings,  \* CanvasManager.performanceSettings
    element,              \* the canvas element: backing store and CSS size
    ctx,                  \* the 2d drawing context's state
    resizeTimeout,        \* setupResizeHandler's timer handle and the browser's
                          \* pending timers
    thrown,               \* the error the page's script has thrown, or "none"
    points,               \* RocketCurve.points
    isAnimating,          \* RocketCurve.isAnimating
    animationId,          \* RocketCurve.animationId
    frames,               \* requestAnimationFrame: pending requests and next id
    particles,            \* ExplosionParticles.particles
    isActive,             \* ExplosionParticles.isActive
    round,                \* round lifecycle seen by the composition root
    ui,                   \* UIManager's fields and the panel's elements
    socket,               \* SocketManager's fields, the socket.io client
                          \* and what the server has received
    ghost                 \* history variables used by the properties only

vars == <<navigator, innerWidth, devicePixelRatio, rect, width, height, dpr,
          performanceSettings, element, ctx, resizeTimeout, thrown, points,
          isAnimating, animationId, frames, particles, isActive, round,
          ui, socket, ghost>>

surfaceVars == <<navigator, innerWidth, devicePixelRatio, rect, width, height,
                 dpr, performanceSettings, element, resizeTimeout, thrown>>

loopVars == <<isAnimating, animationId, frames>>

burstVars == <<particles, isActive>>

panelVars == <<ui, socket>>

canvasVars == <<surfaceVars, ctx, points, loopVars, burstVars, round>>

-----------------------------------------------------------------------------
(* Units and helpers *)

TimeUnit == 10
MultUnit == 100
LifeUnit == 100000
RandUnit == 1000
PosUnit == 1000
DprUnit == 2
MoneyUnit == 100

Min(a, b) == IF a < b THEN a ELSE b

\* A JavaScript value that may be undefined.
Undefined == [defined |-> FALSE, value |-> 0]

Num(n) == [defined |-> TRUE, value |-> n]

\* JavaScript a < n for a number n: false when a is undefined (NaN compares false).
JsLess(a, n) == a.defined /\ a.value < n

\* JavaScript a || d: d when a is undefined or 0.
JsOr(a, d) == IF a.defined /\ a.value # 0 THEN a.value ELSE d

\* null, for a value that is otherwise a record.
Null == [isNull |-> TRUE]

-----------------------------------------------------------------------------
(* SocketManager: the connection *)

\* socket.js:4-14: a new SocketManager.  io(url) has begun to connect;
\* `connected` and `sendBuffer` are the socket.io client's own state,
\* `received` is what the server has received, `warned` the messages send()
\* only warned about, `clock` the number of messages stamped so far and
\* `joinTimers` the auto-join timers pending.  eventCallbacks is the list
\* registered for one event; `atEmit` is that list as the last emit found
\* it, `invoked` the callbacks that emit called, `caught` the errors it
\* caught.
NewSocketManager ==
    [isConnected |-> FALSE, reconnectAttempts |-> 0,
     connected |-> FALSE, sendBuffer |-> <<>>, received |-> <<>>,
     warned |-> <<>>, clock |-> 0, joinTimers |-> 0,
     eventCallbacks |-> <<>>, atEmit |-> <<>>, invoked |-> <<>>,
     caught |-> 0]

\* socket.io's socket.emit: the packet goes out when the socket is connected
\* and is buffered until the next connect otherwise.
socketEmit(s, message) ==
    IF s.connected
    THEN [s EXCEPT !.received = Append(@, message)]
    ELSE [s EXCEPT !.sendBuffer = Append(@, message)]

\* Mutant of send: no test of isConnected.
sendUnguarded(s, message) ==
    socketEmit([s EXCEPT !.clock = @ + 1], message)

\* socket.js:134-140
send(s, message) ==
    IF s.isConnected
    THEN socketEmit([s EXCEPT !.clock = @ + 1], message)
    ELSE [s EXCEPT !.clock = @ + 1, !.warned = Append(@, message)]

\* socket.js:143-162: the messages of placeBet, cashOut and joinGame; the
\* timestamp is the manager's clock.
socketPlaceBet(s, amount) ==
    send(s, [event |-> "place_bet", amount |-> amount, timestamp |-> s.clock])

socketCashOut(s) ==
    send(s, [event |-> "cash_out", amount |-> 0, timestamp |-> s.clock])

socketJoinGame(s) ==
    send(s, [event |-> "join_game", amount |-> 0, timestamp |-> s.clock])

\* The callbacks registered for the event: one that returns, one that
\* throws, one that removes itself when called and one that removes the
\* callback that returns.
Callbacks == {"log", "throws", "once", "offLog"}

\* callbacks.indexOf(callback), counted from 1; 0 when absent.
RECURSIVE indexFrom(_, _, _)
indexFrom(callbacks, callback, k) ==
    IF k > Len(callbacks) THEN 0
    ELSE IF callbacks[k] = callback THEN k
    ELSE indexFrom(callbacks, callback, k + 1)

indexOf(callbacks, callback) == indexFrom(callbacks, callback, 1)

\* callbacks.splice(index, 1)
splice(callbacks, index) ==
    [k \in 1..(Len(callbacks) - 1) |->
        IF k < index THEN callbacks[k] ELSE callbacks[k + 1]]

\* socket.js:104-109
on(s, callback) == [s EXCEPT !.eventCallbacks = Append(@, callback)]

\* socket.js:111-119
off(s, callback) ==
    LET index == indexOf(s.eventCallbacks, callback)
    IN  IF index > 0
        THEN [s EXCEPT !.eventCallbacks = splice(@, index)]
        ELSE s

\* socket.js:123-129: one callback called inside try / catch.
invoke(s, callback) ==
    LET called == [s EXCEPT !.invoked = Append(@, callback)]
    IN  CASE callback = "throws" -> [called EXCEPT !.caught = @ + 1]
          [] callback = "once"   -> off(called, "once")
          [] callback = "offLog" -> off(called, "log")
          [] OTHER               -> called

\* Array.prototype.forEach on the list itself: the indices below the length
\* found at the start are visited in order, each only if the list still has
\* it when its turn comes.
RECURSIVE forEach(_, _, _)
forEach(s, k, len) ==
    IF k > len THEN s
    ELSE IF k > Len(s.eventCallbacks) THEN forEach(s, k + 1, len)
    ELSE forEach(invoke(s, s.eventCallbacks[k]), k + 1, len)

\* socket.js:121-131
emit(s) ==
    forEach([s EXCEPT !.atEmit = s.eventCallbacks, !.invoked = <<>>,
                      !.caught = 0],
            1, Len(s.eventCallbacks))

-----------------------------------------------------------------------------
(* UIManager *)

\* part_000:4-16: a new UIManager.  The elements read as the page first shows
\* them: the bet field holds 10.00 and the button is enabled.
NewUIManager ==
    [gameState |-> "waiting", playerBalance |-> 1000 * MoneyUnit,
     currentBet |-> 0, isAutoCashOut |-> FALSE, isPlaying |-> FALSE,
     betAmount |-> "10.00", borderColor |-> "",
     btnText |-> "", btnDisabled |-> FALSE, btnLoadingHidden |-> TRUE,
     btnBackground |-> "", balanceShown |-> 1000 * MoneyUnit,
     notification |-> "", uncaught |-> "none"]

\* The texts the bet field takes.
BetTexts == {"abc", "0.50", "10.00", "1000"}

\* parseFloat of the bet field's text: NaN for text that starts with no number.
parseFloat(text) ==
    CASE text = "0.50"  -> Num(MoneyUnit \div 2)
      [] text = "10.00" -> Num(10 * MoneyUnit)
      [] text = "1000"  -> Num(1000 * MoneyUnit)
      [] OTHER          -> Undefined

\* The engine's call stack holds MaxCallDepth frames; a call made at that
\* depth throws a RangeError.  Every operator below takes the depth it is
\* called at and returns, with the state it leaves, whether it threw.
MaxCallDepth == 6

RECURSIVE validateBetAmount(_, _, _)
RECURSIVE updateStartButton(_, _)

\* part_000:150-158: validateBetAmount(value), amount being
\* parseFloat(value) || 0.
validateBetAmount(u, amount, depth) ==
    IF depth > MaxCallDepth THEN [ui |-> u, isValid |-> FALSE, thrown |-> TRUE]
    ELSE LET isValid == amount >= MoneyUnit /\ amount <= u.playerBalance
             marked == [u EXCEPT !.borderColor = IF isValid THEN ""
                                                 ELSE "#e53e3e"]
             button == updateStartButton(marked, depth + 1)
         IN  [ui |-> button.ui, isValid |-> isValid /\ ~button.thrown,
              thrown |-> button.thrown]

\* part_000:255-257: the button's background is cleared unless the player is
\* flying.
styleReset(u) ==
    IF u.gameState # "flying" \/ ~u.isPlaying
    THEN [u EXCEPT !.btnBackground = ""]
    ELSE u

\* part_000:219-258
updateStartButton(u, depth) ==
    IF depth > MaxCallDepth THEN [ui |-> u, thrown |-> TRUE]
    ELSE IF u.gameState \in {"waiting", "starting"} THEN
        IF u.isPlaying
        THEN [ui |-> styleReset([u EXCEPT !.btnText = "Aguardando...",
                                          !.btnDisabled = TRUE,
                                          !.btnLoadingHidden = FALSE]),
              thrown |-> FALSE]
        ELSE LET bet == validateBetAmount(
                            u, JsOr(parseFloat(u.betAmount), 0), depth + 1)
             IN  IF bet.thrown THEN [ui |-> bet.ui, thrown |-> TRUE]
                 ELSE [ui |-> styleReset(
                                 [bet.ui EXCEPT !.btnText = "Começar o jogo",
                                                !.btnDisabled = ~bet.isValid,
                                                !.btnLoadingHidden = TRUE]),
                       thrown |-> FALSE]
    ELSE IF u.gameState = "flying" /\ u.isPlaying
    THEN [ui |-> styleReset([u EXCEPT !.btnText = "Retirar",
                                      !.btnDisabled = FALSE,
                                      !.btnLoadingHidden = TRUE,
                                      !.btnBackground = "green"]),
          thrown |-> FALSE]
    ELSE [ui |-> styleReset([u EXCEPT !.btnText = "Aguarde...",
                                      !.btnDisabled = TRUE,
                                      !.btnLoadingHidden = TRUE]),
          thrown |-> FALSE]

\* What a handler leaves when a call it made threw: the error reaches the
\* event loop uncaught.
threw(u, s) == [ui |-> [u EXCEPT !.uncaught = "RangeError"], socket |-> s]

returned(u, s) == [ui |-> u, socket |-> s]

\* Mutant of placeBet: the amount is not validated.
placeBetUnvalidated(u, s, depth) ==
    LET betAmount == JsOr(parseFloat(u.betAmount), 0)
        sent == socketPlaceBet(s, betAmount)
        placed == [u EXCEPT !.currentBet = betAmount,
                            !.playerBalance = @ - betAmount,
                            !.isPlaying = TRUE,
                            !.balanceShown = u.playerBalance - betAmount]
        button == updateStartButton(placed, depth + 1)
    IN  IF button.thrown THEN threw(button.ui, sent)
        ELSE returned([button.ui EXCEPT !.notification = "success"], sent)

\* part_000:177-205.  window.socketManager exists; the auto cash out toggle
\* is off, so the message carries no autoCashOut.
placeBet(u, s, depth) ==
    LET betAmount == JsOr(parseFloat(u.betAmount), 0)
        bet == validateBetAmount(u, betAmount, depth + 1)
    IN  IF bet.thrown THEN threw(bet.ui, s)
        ELSE IF ~bet.isValid
        THEN returned([bet.ui EXCEPT !.notification = "error"], s)
        ELSE IF betAmount > bet.ui.playerBalance
        THEN returned([bet.ui EXCEPT !.notification = "error"], s)
        ELSE LET sent == socketPlaceBet(s, betAmount)
                 placed == [bet.ui EXCEPT
                               !.currentBet = betAmount,
                               !.playerBalance = @ - betAmount,
                               !.isPlaying = TRUE,
                               !.balanceShown = bet.ui.playerBalance - betAmount]
                 button == updateStartButton(placed, depth + 1)
             IN  IF button.thrown THEN threw(button.ui, sent)
                 ELSE returned([button.ui EXCEPT !.notification = "success"],
                               sent)

\* part_000:207-217
cashOut(u, s, depth) ==
    IF ~u.isPlaying THEN returned(u, s)
    ELSE LET sent == socketCashOut(s)
             button == updateStartButton([u EXCEPT !.isPlaying = FALSE],
                                         depth + 1)
         IN  IF button.thrown THEN threw(button.ui, sent)
             ELSE returned(button.ui, sent)

\* part_000:169-175
handleMainAction(u, s, depth) ==
    IF u.gameState \in {"waiting", "starting"} THEN placeBet(u, s, depth + 1)
    ELSE IF u.gameState = "flying" /\ u.isPlaying
    THEN cashOut(u, s, depth + 1)
    ELSE returned(u, s)

\* part_000:337-356, 358-400: setGameState(state); of the state's handler
\* only handleCrashedState changes a field.
setGameState(u, state, depth) ==
    LET entered == [u EXCEPT !.gameState = state,
                             !.isPlaying = IF state = "crashed" THEN FALSE
                                           ELSE @]
        button == updateStartButton(entered, depth + 1)
    IN  IF button.thrown THEN [button.ui EXCEPT !.uncaught = "RangeError"]
        ELSE button.ui

\* part_000:493-504
handlePlayerCashedOut(u, isCurrentPlayer, amount, depth) ==
    LET paid == IF isCurrentPlayer
                THEN [u EXCEPT !.playerBalance = @ + amount,
                               !.balanceShown = u.playerBalance + amount,
                               !.notification = "success",
                               !.isPlaying = FALSE]
                ELSE u
        button == updateStartButton(paid, depth + 1)
    IN  IF button.thrown THEN [button.ui EXCEPT !.uncaught = "RangeError"]
        ELSE button.ui

\* A handler starts with no error pending.
entering(u) == [u EXCEPT !.uncaught = "none"]

noteOp(g, op) == [g EXCEPT !.painted = <<>>, !.lastOp = op]

\* part_000:82-84: the bet field's 'input' listener, the field holding text.
BetInput(text) ==
    LET typed == [entering(ui) EXCEPT !.betAmount = text]
        bet == validateBetAmount(typed, JsOr(parseFloat(text), 0), 1)
    IN  /\ ui' = IF bet.thrown THEN [bet.ui EXCEPT !.uncaught = "RangeError"]
                 ELSE bet.ui
        /\ ghost' = noteOp(ghost, "input")
        /\ UNCHANGED <<canvasVars, socket>>

\* part_000:143-148
ClearBet ==
    /\ ui' = [entering(ui) EXCEPT !.betAmount = "10.00",
                                  !.isAutoCashOut = FALSE]
    /\ ghost' = noteOp(ghost, "clearBet")
    /\ UNCHANGED <<canvasVars, socket>>

MaxSends == 3

\* part_000:77-79, 93-98: a click on the button, which no disabled button
\* receives, or Enter in the bet field.
MainAction(via) ==
    LET done == handleMainAction(entering(ui), socket, 1)
    IN  /\ via = "click" => ~ui.btnDisabled
        /\ done.socket.clock <= MaxSends
        /\ ui' = done.ui
        /\ socket' = done.socket
        /\ ghost' = noteOp(ghost, via)
        /\ UNCHANGED canvasVars

\* part_000:177-205: placeBet(), called on window.uiManager.
PlaceBet ==
    LET done == placeBet(entering(ui), socket, 1)
    IN  /\ done.socket.clock <= MaxSends
        /\ ui' = done.ui
        /\ socket' = done.socket
        /\ ghost' = noteOp(ghost, "placeBet")
        /\ UNCHANGED canvasVars

\* part_000:337-356: setGameState(state), called on window.uiManager.
SetGameState(state) ==
    /\ ui' = setGameState(entering(ui), state, 1)
    /\ ghost' = noteOp(ghost, "setGameState")
    /\ UNCHANGED <<canvasVars, socket>>

MaxBalance == 100000

\* part_000:493-504: handlePlayerCashedOut(data).
HandlePlayerCashedOut(isCurrentPlayer, amount) ==
    /\ ui.playerBalance + amount <= MaxBalance
    /\ ui' = handlePlayerCashedOut(entering(ui), isCurrentPlayer, amount, 1)
    /\ ghost' = noteOp(ghost, "playerCashedOut")
    /\ UNCHANGED <<canvasVars, socket>>

MaxTimers == 1

\* socket.js:42-47, 217-223: socket.io connects: it flushes its buffer, then
\* the 'connect' listener runs and the page's connection_status callback
\* sets the auto-join timer.
SocketConnected ==
    /\ ~socket.connected
    /\ socket.joinTimers < MaxTimers
    /\ socket' = [socket EXCEPT !.connected = TRUE,
                                !.received = @ \o socket.sendBuffer,
                                !.sendBuffer = <<>>,
                                !.isConnected = TRUE,
                                !.reconnectAttempts = 0,
                                !.joinTimers = @ + 1]
    /\ ghost' = noteOp(ghost, "connect")
    /\ UNCHANGED <<canvasVars, ui>>

\* socket.js:49-53: socket.io disconnects, then the 'disconnect' listener runs.
SocketDisconnected ==
    /\ socket.connected
    /\ socket' = [socket EXCEPT !.connected = FALSE, !.isConnected = FALSE]
    /\ ghost' = noteOp(ghost, "disconnect")
    /\ UNCHANGED <<canvasVars, ui>>

\* socket.js:219-221: an auto-join timer fires.
AutoJoin ==
    /\ socket.joinTimers > 0
    /\ socket.clock < MaxSends
    /\ socket' = socketJoinGame([socket EXCEPT !.joinTimers = @ - 1])
    /\ ghost' = noteOp(ghost, "joinGame")
    /\ UNCHANGED <<canvasVars, ui>>

\* socket.js:143-149: socketManager.placeBet(amount).
SendPlaceBet(amount) ==
    /\ socket.clock < MaxSends
    /\ socket' = socketPlaceBet(socket, amount)
    /\ ghost' = noteOp(ghost, "send")
    /\ UNCHANGED <<canvasVars, ui>>

\* socket.js:151-155: socketManager.cashOut().
SendCashOut ==
    /\ socket.clock < MaxSends
    /\ socket' = socketCashOut(socket)
    /\ ghost' = noteOp(ghost, "send")
    /\ UNCHANGED <<canvasVars, ui>>

MaxCallbacks == 3

\* socket.js:104-109: socketManager.on(event, callback).
On(callback) ==
    /\ Len(socket.eventCallbacks) < MaxCallbacks
    /\ socket' = on(socket, callback)
    /\ ghost' = noteOp(ghost, "on")
    /\ UNCHANGED <<canvasVars, ui>>

\* socket.js:111-119: socketManager.off(event, callback).
Off(callback) ==
    /\ socket' = off(socket, callback)
    /\ ghost' = noteOp(ghost, "off")
    /\ UNCHANGED <<canvasVars, ui>>

\* socket.js:73-75, 121-131: the server's event arrives and is emitted to the
\* callbacks.
Emit ==
    /\ socket' = emit(socket)
    /\ ghost' = noteOp(ghost, "emit")
    /\ UNCHANGED <<canvasVars, ui>>

-----------------------------------------------------------------------------
(* The bet panel: the player types, clicks and presses Enter, the page     *)
(* calls placeBet, setGameState and handlePlayerCashedOut, and the socket  *)
(* connects.                                                               *)

GameStates == {"waiting", "starting", "flying", "crashed"}

NextUI ==
    \/ \E text \in BetTexts : BetInput(text)
    \/ ClearBet
    \/ \E via \in {"click", "enter"} : MainAction(via)
    \/ PlaceBet
    \/ \E state \in GameStates : SetGameState(state)
    \/ \E isCurrentPlayer \in BOOLEAN :
          HandlePlayerCashedOut(isCurrentPlayer, 500 * MoneyUnit)
    \/ SocketConnected
    \/ AutoJoin

-----------------------------------------------------------------------------
(* The socket manager's connection: it comes and goes and the page sends. *)

NextSocket ==
    \/ SocketConnected
    \/ SocketDisconnected
    \/ AutoJoin
    \/ \E amount \in {10 * MoneyUnit} : SendPlaceBet(amount)
    \/ SendCashOut

-----------------------------------------------------------------------------
(* The socket manager's emitter: the page registers and removes callbacks *)
(* and the server's events are emitted to them.                           *)

NextEmitter ==
    \/ \E callback \in Callbacks : On(callback)
    \/ \E callback \in Callbacks : Off(callback)
    \/ Emit

-----------------------------------------------------------------------------
(* CanvasManager *)


\* Mutant of detectPerformance: the thresholds compared with <= instead of <.
detectPerformanceInclusive(nav, viewport) ==
    LET isLowEnd == \/ JsLess(nav.hardwareConcurrency, 5)
                    \/ JsLess(nav.deviceMemory, 3)
                    \/ viewport < 769
    IN  [particleCount |-> IF isLowEnd THEN 10 ELSE 20,
         frameRate     |-> IF isLowEnd THEN 30 ELSE 60,
         enableShadows |-> ~isLowEnd,
         enableBlur    |-> ~isLowEnd]

\* canvas.js:51-62
detectPerformance(nav, viewport) ==
    LET isLowEnd == \/ JsLess(nav.hardwareConcurrency, 4)
                    \/ JsLess(nav.deviceMemory, 2)
                    \/ viewport < 768
    IN  [particleCount |-> IF isLowEnd THEN 10 ELSE 20,
         frameRate     |-> IF isLowEnd THEN 30 ELSE 60,
         enableShadows |-> ~isLowEnd,
         enableBlur    |-> ~isLowEnd]

\* The state of a 2d context after its canvas's backing store is (re)sized:
\* assigning canvas.width or canvas.height resets the context to its defaults
\* (identity transform, opaque, black fill and stroke, no shadow, empty save
\* stack).
DefaultContext ==
    [scale |-> DprUnit, globalAlpha |-> LifeUnit, fillStyle |-> "#000000",
     strokeStyle |-> "#000000", lineWidth |-> 1, lineCap |-> "butt",
     lineJoin |-> "miter", lineDash |-> <<>>, font |-> "10px sans-serif",
     shadowColor |-> "rgba(0, 0, 0, 0)", shadowBlur |-> 0,
     shadowOffsetX |-> 0, shadowOffsetY |-> 0,
     imageSmoothingEnabled |-> TRUE, imageSmoothingQuality |-> "low",
     saved |-> <<>>]

\* canvas.js:34-49: the values resize() leaves, for layout box `box` and ratio r.
\* canvas.width and canvas.height are integers: the assignment truncates.
resizedElement(box, r) ==
    [width |-> (box.width * r) \div DprUnit,
     height |-> (box.height * r) \div DprUnit,
     styleWidth |-> box.width, styleHeight |-> box.height]

\* Mutant of resizedContext: ctx.scale applied to the transform resize() found
\* (the backing store's assignment resets nothing).
resizedContextCompounds(r) == [ctx EXCEPT !.scale = (@ * r) \div DprUnit]

\* canvas.js:40-44: the backing store's assignment resets the context, then
\* ctx.scale(dpr, dpr).
resizedContext(r) == [DefaultContext EXCEPT !.scale = (@ * r) \div DprUnit]

\* canvas.js:4-16, 125-132: the page after `new CanvasManager(id)` and
\* `new RocketCurve(canvasManager)`, on a device with signals nav, viewport
\* width iw, pixel ratio ratio and canvas layout box `box`.  No explosion
\* exists yet.
Construct(nav, iw, ratio, box) ==
    /\ navigator = nav
    /\ innerWidth = iw
    /\ devicePixelRatio = ratio
    /\ rect = box
    /\ dpr = JsOr(ratio, DprUnit)
    /\ width = box.width
    /\ height = box.height
    /\ element = resizedElement(box, JsOr(ratio, DprUnit))
    /\ ctx = [DefaultContext EXCEPT
                 !.scale = (@ * JsOr(ratio, DprUnit)) \div DprUnit,
                 !.imageSmoothingEnabled = TRUE,
                 !.imageSmoothingQuality = "high"]
    /\ resizeTimeout = [handle |-> "undefined", timers |-> <<>>]
    /\ thrown = "none"
    /\ performanceSettings = detectPerformance(nav, iw)
    /\ points = <<>>
    /\ animationId = 0
    /\ isAnimating = FALSE
    /\ frames = [pending |-> {}, nextId |-> 1]
    /\ particles = <<>>
    /\ isActive = FALSE
    /\ round = [phase |-> "waiting", stream |-> "ticks", samples |-> 0]
    /\ ui = NewUIManager
    /\ socket = NewSocketManager
    /\ ghost = [inserted |-> <<>>, resets |-> FALSE, dropped |-> FALSE,
                lastOp |-> "construct",
                signals |-> [nav |-> nav, viewport |-> iw],
                burst |-> Null, updates |-> 0, painted |-> <<>>,
                resizeRun |-> 1, events |-> 0, burstLen |-> 0, quiet |-> 0,
                fired |-> 0]

\* canvas.js:5-6: the page after `new CanvasManager(id)` when no element has
\* that id: document.getElementById returns null and this.canvas.getContext
\* throws a TypeError.  No CanvasManager exists (its fields read 0 or null
\* here), no listener was added, and the script that called the constructor
\* has stopped.
ConstructThrows(nav, iw, ratio) ==
    /\ navigator = nav
    /\ innerWidth = iw
    /\ devicePixelRatio = ratio
    /\ rect = [width |-> 0, height |-> 0]
    /\ dpr = 0
    /\ width = 0
    /\ height = 0
    /\ element = Null
    /\ ctx = Null
    /\ resizeTimeout = [handle |-> "undefined", timers |-> <<>>]
    /\ thrown = "TypeError"
    /\ performanceSettings = Null
    /\ points = <<>>
    /\ animationId = 0
    /\ isAnimating = FALSE
    /\ frames = [pending |-> {}, nextId |-> 1]
    /\ particles = <<>>
    /\ isActive = FALSE
    /\ round = [phase |-> "waiting", stream |-> "ticks", samples |-> 0]
    /\ ui = NewUIManager
    /\ socket = NewSocketManager
    /\ ghost = [inserted |-> <<>>, resets |-> FALSE, dropped |-> FALSE,
                lastOp |-> "construct",
                signals |-> [nav |-> nav, viewport |-> iw],
                burst |-> Null, updates |-> 0, painted |-> <<>>,
                resizeRun |-> 0, events |-> 0, burstLen |-> 0, quiet |-> 0,
                fired |-> 0]

\* Device signals, viewports, ratios and layout boxes the model draws from.
Navigators ==
    { [hardwareConcurrency |-> c, deviceMemory |-> m] :
        c \in {Undefined, Num(2), Num(4), Num(8)},
        m \in {Undefined, Num(1), Num(2), Num(8)} }

InnerWidths == {375, 767, 768, 1280}

\* undefined, 1, 1.5 and 2.
PixelRatios == {Undefined, Num(2), Num(3), Num(4)}

LayoutBoxes ==
    { [width |-> 300, height |-> 200], [width |-> 600, height |-> 400] }

\* The layout boxes of the surface's own specification: one more, whose sides
\* times 1.5 are not integers.
SurfaceBoxes == LayoutBoxes \cup { [width |-> 375, height |-> 211] }

DesktopNavigator == [hardwareConcurrency |-> Num(8), deviceMemory |-> Num(8)]

PhoneNavigator == [hardwareConcurrency |-> Num(2), deviceMemory |-> Num(1)]

Init ==
    \E nav \in Navigators, iw \in InnerWidths, ratio \in PixelRatios,
       box \in SurfaceBoxes :
        Construct(nav, iw, ratio, box)

-----------------------------------------------------------------------------
(* CanvasManager: the debounced resize *)

\* setTimeout / clearTimeout.  resizeTimeout.timers lists the remaining
\* milliseconds of the pending timers, oldest first; resizeTimeout.handle is
\* the closure's variable: "undefined" before the first event, "pending" while
\* the timer it names (always the newest) is pending, "fired" once it has run.
setTimeout(rt, ms) == [handle |-> "pending", timers |-> Append(rt.timers, ms)]

clearTimeout(rt) ==
    IF rt.handle = "pending"
    THEN [rt EXCEPT !.timers = SubSeq(@, 1, Len(@) - 1)]
    ELSE rt

\* Mutant of resizeHandler: the pending timer is not cleared.
resizeHandlerKeepsTimer(rt) == setTimeout(rt, 150)

\* canvas.js:28-31: the 'resize' listener.
resizeHandler(rt) == setTimeout(clearTimeout(rt), 150)

\* The timers after timer k has run.
timerRan(rt, k) ==
    [handle |-> IF rt.handle = "pending" /\ k = Len(rt.timers) THEN "fired"
                ELSE rt.handle,
     timers |-> [i \in 1 .. Len(rt.timers) - 1 |->
                    IF i < k THEN rt.timers[i] ELSE rt.timers[i + 1]]]

MaxResizeEvents == 3

\* canvas.js:28-31: a window 'resize' event.  The layout may have changed the
\* viewport and the canvas's box; the handler cancels the pending timer and
\* arms a new one, 150 ms out.
WindowResized(iw, box) ==
    /\ ghost.events < MaxResizeEvents
    /\ innerWidth' = iw
    /\ rect' = box
    /\ resizeTimeout' = resizeHandler(resizeTimeout)
    /\ ghost' = [ghost EXCEPT !.painted = <<>>, !.lastOp = "resizeEvent",
                              !.resizeRun = 0,
                              !.events = @ + 1, !.quiet = 0, !.fired = 0,
                              !.burstLen = IF ghost.fired > 0 THEN 1 ELSE @ + 1]
    /\ UNCHANGED <<navigator, devicePixelRatio, width, height, dpr,
                   performanceSettings, element, ctx, thrown, points, loopVars,
                   burstVars, round, panelVars>>

\* ms milliseconds pass with a timer pending and no resize event; no timer is
\* overdue.
Elapse(ms) ==
    /\ Len(resizeTimeout.timers) > 0
    /\ \A k \in DOMAIN resizeTimeout.timers : ms <= resizeTimeout.timers[k]
    /\ resizeTimeout' =
          [resizeTimeout EXCEPT
              !.timers = [k \in DOMAIN @ |-> @[k] - ms]]
    /\ ghost' = [ghost EXCEPT !.painted = <<>>, !.lastOp = "elapse",
                              !.quiet = @ + ms]
    /\ UNCHANGED <<navigator, innerWidth, devicePixelRatio, rect, width, height,
                   dpr, performanceSettings, element, ctx, thrown, points,
                   loopVars, burstVars, round, panelVars>>

\* canvas.js:34-49: what resize() assigns.
resize ==
    /\ width' = rect.width
    /\ height' = rect.height
    /\ element' = resizedElement(rect, dpr)
    /\ ctx' = resizedContext(dpr)

\* Mutant of ResizeTimeoutFires: the resize detects the profile again.
ResizeTimeoutFiresRedetects(k) ==
    /\ k \in DOMAIN resizeTimeout.timers
    /\ resizeTimeout.timers[k] = 0
    /\ resizeTimeout' = timerRan(resizeTimeout, k)
    /\ resize
    /\ performanceSettings' = detectPerformance(navigator, innerWidth)
    /\ ghost' = [ghost EXCEPT !.painted = <<>>, !.lastOp = "resizeTimer",
                              !.resizeRun = Min(@ + 1, 2), !.fired = @ + 1]
    /\ UNCHANGED <<navigator, innerWidth, devicePixelRatio, rect, dpr,
                   thrown, points, loopVars, burstVars, round, panelVars>>

\* canvas.js:30, 34-49: timer k is due: it runs resize().
ResizeTimeoutFires(k) ==
    /\ k \in DOMAIN resizeTimeout.timers
    /\ resizeTimeout.timers[k] = 0
    /\ resizeTimeout' = timerRan(resizeTimeout, k)
    /\ resize
    /\ ghost' = [ghost EXCEPT !.painted = <<>>, !.lastOp = "resizeTimer",
                              !.resizeRun = Min(@ + 1, 2), !.fired = @ + 1]
    /\ UNCHANGED <<navigator, innerWidth, devicePixelRatio, rect, dpr,
                   performanceSettings, thrown, points, loopVars, burstVars,
                   round, panelVars>>

\* canvas.js:34-49: resize(), called directly.
Resize ==
    /\ resize
    /\ ghost' = [ghost EXCEPT !.painted = <<>>, !.lastOp = "resize",
                              !.resizeRun = Min(@ + 1, 2)]
    /\ UNCHANGED <<navigator, innerWidth, devicePixelRatio, rect, dpr,
                   performanceSettings, resizeTimeout, thrown, points, loopVars,
                   burstVars, round, panelVars>>

\* canvas.js:64-66.  ghost.painted is what the last operation painted.
Clear ==
    /\ ghost' = [ghost EXCEPT
                    !.painted = <<[op |-> "clearRect", x |-> 0, y |-> 0,
                                   w |-> width, h |-> height]>>,
                    !.lastOp = "clear"]
    /\ UNCHANGED <<surfaceVars, ctx, points, loopVars, burstVars, round, panelVars>>

\* canvas.js:112-122.  The gradient runs from (0, 0) to (0, height).
backgroundGradient == "gradient(rgba(26, 32, 44, 0.8), rgba(45, 55, 72, 0.8))"

DrawBackground ==
    /\ ctx' = [ctx EXCEPT !.fillStyle = backgroundGradient]
    /\ ghost' = [ghost EXCEPT
                    !.painted = <<[op |-> "fillRect", x |-> 0, y |-> 0,
                                   w |-> width, h |-> height,
                                   fillStyle |-> backgroundGradient,
                                   gradientTo |-> height]>>,
                    !.lastOp = "drawBackground"]
    /\ UNCHANGED <<surfaceVars, points, loopVars, burstVars, round, panelVars>>

\* canvas.js:68-110: ten dashed rows and six dashed columns at 0.3 alpha, a
\* label on each at 0.6 alpha; the dash and the alpha are set back at the end.
gridContext(c) ==
    [c EXCEPT !.strokeStyle = "#4a5568", !.lineWidth = 1, !.lineDash = <<>>,
              !.fillStyle = "#a0aec0", !.font = "12px Inter, sans-serif",
              !.globalAlpha = LifeUnit]

DrawGrid ==
    /\ ctx' = gridContext(ctx)
    /\ ghost' = [ghost EXCEPT
                    !.painted =
                       <<[op |-> "grid",
                          rows |-> [i \in 1 .. 10 |->
                                      height - (i * height) \div 10],
                          columns |-> [i \in 1 .. 6 |-> (i * width) \div 6],
                          lineDash |-> <<2, 2>>,
                          lineAlpha |-> (3 * LifeUnit) \div 10,
                          labelAlpha |-> (6 * LifeUnit) \div 10]>>,
                    !.lastOp = "drawGrid"]
    /\ UNCHANGED <<surfaceVars, points, loopVars, burstVars, round, panelVars>>

-----------------------------------------------------------------------------
(* The surface alone: every combination of device signals at construction, *)
(* then window resizes and resize() calls.                                 *)

NextSurface ==
    \/ \E iw \in {375, 1280}, box \in SurfaceBoxes : WindowResized(iw, box)
    \/ \E ms \in {50, 100, 150} : Elapse(ms)
    \/ \E k \in DOMAIN resizeTimeout.timers : ResizeTimeoutFires(k)
    \/ Resize

SpecSurface == Init /\ [][NextSurface]_vars

-----------------------------------------------------------------------------
(* RocketCurve *)


\* Mutant of curvePoint: x is not clamped to the right edge.
curvePointUnclamped(time, multiplier) ==
    LET x == (time * width) \div (30 * TimeUnit)
        y == height - Min(((multiplier - MultUnit) * height) \div (10 * MultUnit),
                          height)
    IN  [x |-> x, y |-> y, multiplier |-> multiplier, time |-> time]

\* canvas.js:143-146: the CurvePoint addPoint builds.
curvePoint(time, multiplier) ==
    LET x == Min((time * width) \div (30 * TimeUnit), width)
        y == height - Min(((multiplier - MultUnit) * height) \div (10 * MultUnit),
                          height)
    IN  [x |-> x, y |-> y, multiplier |-> multiplier, time |-> time]


\* Mutant of pushed: over capacity, the newest point is dropped (pop for shift).
pushedDropsNewest(buffer, point) ==
    LET grown == Append(buffer, point)
    IN  IF Len(grown) > 300 THEN SubSeq(grown, 1, Len(grown) - 1) ELSE grown

\* Mutant of pushed: the capacity test is >= (the buffer stops at 299).
pushedEvictsEarly(buffer, point) ==
    LET grown == Append(buffer, point)
    IN  IF Len(grown) >= 300 THEN Tail(grown) ELSE grown

\* canvas.js:146-151: push, then drop the oldest when over 300.
pushed(buffer, point) ==
    LET grown == Append(buffer, point)
    IN  IF Len(grown) > 300 THEN Tail(grown) ELSE grown


\* Mutant of cleared: reset() stops the loop and keeps the points.
clearedNothing(buffer) == buffer

\* canvas.js:134-135: the buffer reset() leaves.
cleared(buffer) == <<>>

\* The animation loop's fields, as one value.
loop == [isAnimating |-> isAnimating, animationId |-> animationId,
         frames |-> frames]

setLoop(l) ==
    /\ isAnimating' = l.isAnimating
    /\ animationId' = l.animationId
    /\ frames' = l.frames

\* requestAnimationFrame / cancelAnimationFrame: ids count up from 1.
requestAnimationFrame(fr) ==
    [pending |-> fr.pending \cup {fr.nextId}, nextId |-> fr.nextId + 1]

cancelAnimationFrame(fr, id) == [fr EXCEPT !.pending = @ \ {id}]

\* Mutant of animate: a frame is requested only when none was ever requested.
animateOnce(l) ==
    IF ~l.isAnimating \/ l.animationId # 0 THEN l
    ELSE [l EXCEPT !.animationId = l.frames.nextId,
                   !.frames = requestAnimationFrame(@)]

\* canvas.js:238-242
animate(l) ==
    IF ~l.isAnimating THEN l
    ELSE [l EXCEPT !.animationId = l.frames.nextId,
                   !.frames = requestAnimationFrame(@)]

\* Mutant of startAnimation: no test of isAnimating.
startAnimationUnguarded(l) == animate([l EXCEPT !.isAnimating = TRUE])

\* canvas.js:224-229
startAnimation(l) ==
    IF l.isAnimating THEN l
    ELSE animate([l EXCEPT !.isAnimating = TRUE])

\* Mutant of stopAnimation: the pending request is not cancelled.
stopAnimationKeepsRequest(l) == [l EXCEPT !.isAnimating = FALSE]

\* canvas.js:231-236.  animationId 0 stands for null: both are falsy.
stopAnimation(l) ==
    [l EXCEPT !.isAnimating = FALSE,
              !.frames = IF l.animationId # 0
                         THEN cancelAnimationFrame(@, l.animationId) ELSE @]

\* The history the properties read.
noteAdd(g, time, multiplier) ==
    [g EXCEPT !.inserted = Append(@, [time |-> time, multiplier |-> multiplier]),
              !.painted = <<>>, !.lastOp = "addPoint"]

noteReset(g, buffer) ==
    [g EXCEPT !.inserted = <<>>, !.resets = TRUE, !.dropped = Len(buffer) > 0,
              !.painted = <<>>, !.lastOp = "reset"]

\* canvas.js:139-152
AddPoint(time, multiplier) ==
    /\ points' = pushed(points, curvePoint(time, multiplier))
    /\ ghost' = noteAdd(ghost, time, multiplier)
    /\ UNCHANGED <<surfaceVars, ctx, loopVars, burstVars, round, panelVars>>

\* canvas.js:134-137
Reset ==
    /\ points' = cleared(points)
    /\ setLoop(stopAnimation(loop))
    /\ ghost' = noteReset(ghost, points)
    /\ UNCHANGED <<surfaceVars, ctx, burstVars, round, panelVars>>

MaxFrames == 3

\* canvas.js:224-229
StartAnimation ==
    /\ startAnimation(loop).frames.nextId <= MaxFrames + 1
    /\ setLoop(startAnimation(loop))
    /\ ghost' = [ghost EXCEPT !.painted = <<>>,
                              !.lastOp = IF isAnimating
                                         THEN "startAnimation (running)"
                                         ELSE "startAnimation"]
    /\ UNCHANGED <<surfaceVars, ctx, points, burstVars, round, panelVars>>

\* Mutant of StopAnimation: stopping empties the buffer, as reset() does.
StopAnimationDiscards ==
    /\ setLoop(stopAnimation(loop))
    /\ points' = cleared(points)
    /\ ghost' = [ghost EXCEPT !.painted = <<>>, !.lastOp = "stopAnimation"]
    /\ UNCHANGED <<surfaceVars, ctx, burstVars, round, panelVars>>

\* canvas.js:231-236
StopAnimation ==
    /\ setLoop(stopAnimation(loop))
    /\ ghost' = [ghost EXCEPT !.painted = <<>>, !.lastOp = "stopAnimation"]
    /\ UNCHANGED <<surfaceVars, ctx, points, burstVars, round, panelVars>>

\* canvas.js:241: the browser runs the callback of pending request id, which
\* calls animate().
FrameCallback(id) ==
    LET fired == [loop EXCEPT !.frames = [@ EXCEPT !.pending = @ \ {id}]]
    IN  /\ id \in frames.pending
        /\ animate(fired).frames.nextId <= MaxFrames + 1
        /\ setLoop(animate(fired))
        /\ ghost' = [ghost EXCEPT !.painted = <<>>, !.lastOp = "frame"]
        /\ UNCHANGED <<surfaceVars, ctx, points, burstVars, round, panelVars>>

RECURSIVE gcd(_, _)
gcd(a, b) == IF b = 0 THEN a ELSE gcd(b, a % b)

Abs(n) == IF n < 0 THEN 0 - n ELSE n

\* Math.atan2(dy, dx).  An angle is kept as the shortest integer vector of its
\* direction, so two angles are equal exactly when their values are; angle 0,
\* which is also atan2(0, 0), is the direction (0, 1).
Atan2(dy, dx) ==
    IF dy = 0 /\ dx = 0 THEN [dy |-> 0, dx |-> 1]
    ELSE LET g == gcd(Abs(dy), Abs(dx))
         IN  [dy |-> dy \div g, dx |-> dx \div g]

ZeroAngle == [dy |-> 0, dx |-> 1]

\* Mutant of getRocketPosition: the arguments of atan2 are exchanged.
getRocketPositionSwapped ==
    IF Len(points) = 0 THEN Null
    ELSE LET lastPoint == points[Len(points)]
             angle == IF Len(points) > 1
                      THEN LET prevPoint == points[Len(points) - 1]
                           IN  Atan2(lastPoint.x - prevPoint.x,
                                     lastPoint.y - prevPoint.y)
                      ELSE ZeroAngle
         IN  [isNull |-> FALSE, x |-> lastPoint.x, y |-> lastPoint.y,
              angle |-> angle, multiplier |-> lastPoint.multiplier]

\* canvas.js:245-263: the value getRocketPosition() returns.
getRocketPosition ==
    IF Len(points) = 0 THEN Null
    ELSE LET lastPoint == points[Len(points)]
             angle == IF Len(points) > 1
                      THEN LET prevPoint == points[Len(points) - 1]
                           IN  Atan2(lastPoint.y - prevPoint.y,
                                     lastPoint.x - prevPoint.x)
                      ELSE ZeroAngle
         IN  [isNull |-> FALSE, x |-> lastPoint.x, y |-> lastPoint.y,
              angle |-> angle, multiplier |-> lastPoint.multiplier]

\* canvas.js:245-263: a call of getRocketPosition(); it assigns nothing.
GetRocketPosition ==
    /\ ghost' = [ghost EXCEPT !.painted = <<>>, !.lastOp = "getRocketPosition"]
    /\ UNCHANGED <<surfaceVars, ctx, points, loopVars, burstVars, round, panelVars>>

\* canvas.js:160-171: the context at ctx.stroke().
curveBrush(c) ==
    LET pen == [c EXCEPT !.strokeStyle = "#e53e3e", !.lineWidth = 3,
                         !.lineCap = "round", !.lineJoin = "round"]
    IN  IF performanceSettings.enableShadows
        THEN [pen EXCEPT !.shadowColor = "#e53e3e", !.shadowBlur = 10,
                         !.shadowOffsetX = 0, !.shadowOffsetY = 0]
        ELSE pen

\* canvas.js:173-191: the path: moveTo the oldest point, a quadratic curve
\* through each inner point to the middle of it and the next (kept doubled),
\* lineTo the newest.
curvePath(buffer) ==
    [moveTo |-> [x |-> buffer[1].x, y |-> buffer[1].y],
     curves |-> [i \in 2 .. Len(buffer) - 1 |->
                   [cpx |-> buffer[i].x, cpy |-> buffer[i].y,
                    x2 |-> buffer[i].x + buffer[i + 1].x,
                    y2 |-> buffer[i].y + buffer[i + 1].y]],
     lineTo |-> [x |-> buffer[Len(buffer)].x, y |-> buffer[Len(buffer)].y]]

\* Mutant of curveStroked: the shadow is left as the stroke used it.
curveStrokedKeepsGlow(c) == curveBrush(c)

\* canvas.js:195-198: the shadow is set back after the stroke.
curveStroked(c) ==
    IF performanceSettings.enableShadows
    THEN [curveBrush(c) EXCEPT !.shadowBlur = 0]
    ELSE curveBrush(c)

\* canvas.js:203-222: the two dots at the newest point; pulse is
\* Math.sin(Date.now() / 500) * 0.3 + 0.7, in 1/PulseUnit.
PulseUnit == 100

Pulses == {40, 70, 100}

drawCurrentPoint(c, buffer, pulse) ==
    LET lastPoint == buffer[Len(buffer)]
    IN  <<[op |-> "fill", x |-> lastPoint.x, y |-> lastPoint.y,
           radius |-> 6 * pulse, fillStyle |-> "#ffffff",
           shadowBlur |-> c.shadowBlur],
          [op |-> "fill", x |-> lastPoint.x, y |-> lastPoint.y,
           radius |-> 4 * pulse, fillStyle |-> "#e53e3e",
           shadowBlur |-> c.shadowBlur]>>

\* canvas.js:154-201: RocketCurve.draw(), with the clock's pulse.
DrawCurve(pulse) ==
    /\ ctx' = IF Len(points) < 2 THEN ctx
              ELSE [curveStroked(ctx) EXCEPT !.fillStyle = "#e53e3e"]
    /\ ghost' = [ghost EXCEPT
                    !.painted =
                       IF Len(points) < 2 THEN <<>>
                       ELSE <<[op |-> "stroke", path |-> curvePath(points),
                               strokeStyle |-> curveBrush(ctx).strokeStyle,
                               shadowBlur |-> curveBrush(ctx).shadowBlur]>>
                            \o drawCurrentPoint(curveStroked(ctx), points, pulse),
                    !.lastOp = "drawCurve"]
    /\ UNCHANGED <<surfaceVars, points, loopVars, burstVars, round, panelVars>>

-----------------------------------------------------------------------------
(* The trajectory alone: any samples early in a round, then the server's   *)
(* ticks, long enough to overflow the buffer.                              *)

FreeAdds == 1
MaxAdds == 302

\* <<time, multiplier>>: valid samples (among them the spec's three), and
\* invalid ones (negative time, multiplier below 1).
TrackSamples ==
    { <<0, 100>>, <<300, 1100>>, <<450, 1100>>, <<-30, 100>>, <<150, 50>> }

\* The n-th tick of a round: 0.1 s apart, the multiplier growing by 0.05.
Tick(n) == <<n, MultUnit + 5 * n>>

TrackInputs ==
    IF Len(ghost.inserted) < FreeAdds
    THEN TrackSamples \cup {Tick(Len(ghost.inserted))}
    ELSE {Tick(Len(ghost.inserted))}

InitTrack ==
    \E box \in LayoutBoxes : Construct(DesktopNavigator, 1280, Num(DprUnit), box)

NextTrack ==
    \/ \E s \in TrackInputs : Len(ghost.inserted) < MaxAdds /\ AddPoint(s[1], s[2])
    \/ Reset

SpecTrack == InitTrack /\ [][NextTrack]_vars

-----------------------------------------------------------------------------
(* ExplosionParticles *)

\* Math.random(): the k-th draw (k = 1, 2, ...) of stream `seed`, in 1/RandUnit.
\* Stream 0 always draws 0 (the smallest value), stream 1 always draws the
\* largest value below 1, the others vary from draw to draw.
NumSeeds == 4

Seeds == 0 .. (NumSeeds - 1)

Rand(seed, k) ==
    IF seed = 0 THEN 0
    ELSE IF seed = 1 THEN RandUnit - 1
    ELSE (seed * 389 + k * 617) % RandUnit

\* canvas.js:295-298
Colors == << "#ff6b6b", "#ffa500", "#ffff00", "#ff4757", "#ff3742" >>

getRandomColor(r) == Colors[((r * Len(Colors)) \div RandUnit) + 1]


\* Mutant of newParticle: the decay range starts at 0.005 instead of 0.015.
newParticleSlowDecay(x, y, seed, i) ==
    LET d == 5 * (i - 1)
    IN  [x     |-> [origin |-> x, steps |-> 0],
         y     |-> y * PosUnit,
         vx    |-> [mantissa |-> (Rand(seed, d + 1) - RandUnit \div 2) * 15,
                    damping |-> 0],
         vy    |-> (Rand(seed, d + 2) - RandUnit \div 2) * 15,
         life  |-> LifeUnit,
         decay |-> (5 * LifeUnit) \div 1000
                     + (Rand(seed, d + 3) * (LifeUnit \div 100)) \div RandUnit,
         size  |-> 2 * PosUnit + (Rand(seed, d + 4) * 4 * PosUnit) \div RandUnit,
         color |-> getRandomColor(Rand(seed, d + 5))]

\* canvas.js:280-289: the i-th particle, from draws 5(i-1)+1 .. 5(i-1)+5.
\*   x   = origin + vx.mantissa/PosUnit * (0.98^0 + ... + 0.98^(steps-1))  px
\*   vx  = mantissa/PosUnit * 0.98^damping                                 px
\*   y, vy, size in 1/PosUnit px; life, decay in 1/LifeUnit.
newParticle(x, y, seed, i) ==
    LET d == 5 * (i - 1)
    IN  [x     |-> [origin |-> x, steps |-> 0],
         y     |-> y * PosUnit,
         vx    |-> [mantissa |-> (Rand(seed, d + 1) - RandUnit \div 2) * 15,
                    damping |-> 0],
         vy    |-> (Rand(seed, d + 2) - RandUnit \div 2) * 15,
         life  |-> LifeUnit,
         decay |-> (15 * LifeUnit) \div 1000
                     + (Rand(seed, d + 3) * (LifeUnit \div 100)) \div RandUnit,
         size  |-> 2 * PosUnit + (Rand(seed, d + 4) * 4 * PosUnit) \div RandUnit,
         color |-> getRandomColor(Rand(seed, d + 5))]


\* Mutant of createParticles: the loop runs while i <= particleCount.
createParticlesOneMore(x, y, seed) ==
    [i \in 1 .. performanceSettings.particleCount + 1 |-> newParticle(x, y, seed, i)]

\* canvas.js:276-293: the particles createParticles pushes.
createParticles(x, y, seed) ==
    [i \in 1 .. performanceSettings.particleCount |-> newParticle(x, y, seed, i)]

noteBurst(g, x, y) ==
    [g EXCEPT !.burst = [isNull |-> FALSE, x |-> x, y |-> y],
              !.updates = 0, !.painted = <<>>, !.lastOp = "createParticles"]

\* canvas.js:267-274: new ExplosionParticles(canvasManager, x, y); it replaces
\* the page's previous explosion.
NewExplosionParticles(x, y, seed) ==
    /\ particles' = createParticles(x, y, seed)
    /\ isActive' = TRUE
    /\ ghost' = noteBurst(ghost, x, y)
    /\ UNCHANGED <<surfaceVars, ctx, points, loopVars, round, panelVars>>


\* Mutant of stepParticle: the step moves the particle and leaves its life.
stepParticleNoDecay(p) ==
    [p EXCEPT !.x = [@ EXCEPT !.steps = @ + 1],
              !.y = @ + p.vy,
              !.vy = @ + PosUnit \div 5,
              !.vx = [@ EXCEPT !.damping = @ + 1]]

\* Mutant of stepParticle: every particle decays at the slowest rate, 0.015.
stepParticleSharedDecay(p) ==
    [p EXCEPT !.x = [@ EXCEPT !.steps = @ + 1],
              !.y = @ + p.vy,
              !.vy = @ + PosUnit \div 5,
              !.vx = [@ EXCEPT !.damping = @ + 1],
              !.life = @ - (15 * LifeUnit) \div 1000]

\* canvas.js:304-308: one particle's step.
stepParticle(p) ==
    [p EXCEPT !.x = [@ EXCEPT !.steps = @ + 1],
              !.y = @ + p.vy,
              !.vy = @ + PosUnit \div 5,
              !.vx = [@ EXCEPT !.damping = @ + 1],
              !.life = @ - p.decay]

alive(p) == p.life > 0

\* canvas.js:303-312: the batch after one update.
updated(batch) ==
    SelectSeq([i \in DOMAIN batch |-> stepParticle(batch[i])], alive)

\* Mutant of Update: isActive is not cleared when the batch empties.
UpdateStaysActive ==
    /\ particles' = IF isActive THEN updated(particles) ELSE particles
    /\ isActive' = isActive
    /\ ghost' = [ghost EXCEPT !.updates = IF isActive THEN @ + 1 ELSE @,
                              !.painted = <<>>, !.lastOp = "update"]
    /\ UNCHANGED <<surfaceVars, ctx, points, loopVars, round, panelVars>>

\* canvas.js:300-317
Update ==
    /\ particles' = IF isActive THEN updated(particles) ELSE particles
    /\ isActive' = IF isActive /\ Len(updated(particles)) = 0 THEN FALSE
                   ELSE isActive
    /\ ghost' = [ghost EXCEPT !.updates = IF isActive THEN @ + 1 ELSE @,
                              !.painted = <<>>, !.lastOp = "update"]
    /\ UNCHANGED <<surfaceVars, ctx, points, loopVars, round, panelVars>>

\* ctx.save() / ctx.restore(): the drawing state kept on the context's stack.
drawingState(c) == [f \in DOMAIN c \ {"saved"} |-> c[f]]

ctxSave(c) == [c EXCEPT !.saved = Append(@, drawingState(c))]

ctxRestore(c) ==
    IF Len(c.saved) = 0 THEN c
    ELSE LET top == c.saved[Len(c.saved)]
         IN  [f \in DOMAIN c |->
                IF f = "saved" THEN SubSeq(c.saved, 1, Len(c.saved) - 1)
                ELSE top[f]]

\* canvas.js:325-331: drawing one particle: the context before ctx.fill(),
\* what the fill paints, and the context after ctx.restore().
particleBrush(c, p) ==
    [ctxSave(c) EXCEPT !.globalAlpha = p.life, !.fillStyle = p.color]

particleFill(c, p) ==
    [x |-> p.x, y |-> p.y, radius |-> p.size,
     globalAlpha |-> particleBrush(c, p).globalAlpha,
     fillStyle |-> particleBrush(c, p).fillStyle]

\* Mutant of afterParticle: no ctx.restore().
afterParticleUnrestored(c, p) == particleBrush(c, p)

afterParticle(c, p) == ctxRestore(particleBrush(c, p))

\* canvas.js:324-332: the forEach: the context after the first k particles,
\* and what the k-th particle's fill paints.
RECURSIVE contextAfter(_, _, _)
contextAfter(c, batch, k) ==
    IF k = 0 THEN c
    ELSE afterParticle(contextAfter(c, batch, k - 1), batch[k])

painted(c, batch) ==
    [k \in DOMAIN batch |-> particleFill(contextAfter(c, batch, k - 1), batch[k])]

\* canvas.js:319-333
Draw ==
    /\ ctx' = IF isActive THEN contextAfter(ctx, particles, Len(particles)) ELSE ctx
    /\ ghost' = [ghost EXCEPT
                    !.painted = IF isActive THEN painted(ctx, particles) ELSE <<>>,
                    !.lastOp = "draw"]
    /\ UNCHANGED <<surfaceVars, points, loopVars, burstVars, round, panelVars>>

-----------------------------------------------------------------------------
(* The explosion alone: built at one of a few origins on either profile,   *)
(* then updated and drawn in any order.                                     *)

Origins == { <<0, 200>>, <<300, 0>>, <<150, 120>> }

InitBurst ==
    \E nav \in {DesktopNavigator, PhoneNavigator} :
        Construct(nav, 1280, Num(DprUnit), [width |-> 300, height |-> 200])

NextBurst ==
    \/ \E o \in Origins, seed \in Seeds : NewExplosionParticles(o[1], o[2], seed)
    \/ Update
    \/ Draw

SpecBurst == InitBurst /\ [][NextBurst]_vars

-----------------------------------------------------------------------------
(* A round, as the page's composition root drives it (spec.md section 6):   *)
(* roundStarted resets the track and starts the loop, each sample is       *)
(* forwarded to addPoint, roundCrashed builds the explosion at the head    *)
(* position and ends the samples of the round.  One round is followed,      *)
(* from roundStarted to the explosion's updates after the crash.           *)

\* The samples of a round: the server's ticks, or the four samples
\* (0, 1.0), (5, 2.0), (10, 4.0), (15, 6.0).
ScenarioSamples == << <<0, 100>>, <<50, 200>>, <<100, 400>>, <<150, 600>> >>

Streams == {"ticks", "scenario"}

hasSample(stream, n) ==
    IF stream = "scenario" THEN n < Len(ScenarioSamples) ELSE n < MaxAdds

sampleOf(stream, n) ==
    IF stream = "scenario" THEN ScenarioSamples[n + 1] ELSE Tick(n)

RoundStarted(stream) ==
    /\ round.phase = "waiting"
    /\ points' = cleared(points)
    /\ setLoop(startAnimation(stopAnimation(loop)))
    /\ round' = [phase |-> "flying", stream |-> stream, samples |-> 0]
    /\ ghost' = [noteReset(ghost, points) EXCEPT !.lastOp = "roundStarted"]
    /\ UNCHANGED <<surfaceVars, ctx, burstVars, panelVars>>

Sample ==
    LET s == sampleOf(round.stream, round.samples)
    IN  /\ round.phase = "flying"
        /\ hasSample(round.stream, round.samples)
        /\ points' = pushed(points, curvePoint(s[1], s[2]))
        /\ round' = [round EXCEPT !.samples = @ + 1]
        /\ ghost' = [noteAdd(ghost, s[1], s[2]) EXCEPT !.lastOp = "sample"]
        /\ UNCHANGED <<surfaceVars, ctx, loopVars, burstVars, panelVars>>

RoundCrashed(seed) ==
    LET headPos == getRocketPosition
    IN  /\ round.phase = "flying"
        /\ headPos # Null
        /\ particles' = createParticles(headPos.x, headPos.y, seed)
        /\ isActive' = TRUE
        /\ round' = [round EXCEPT !.phase = "crashed"]
        /\ ghost' = [noteBurst(ghost, headPos.x, headPos.y)
                        EXCEPT !.lastOp = "roundCrashed"]
        /\ UNCHANGED <<surfaceVars, ctx, points, loopVars, panelVars>>

MaxRoundUpdates == 2

InitRound ==
    \E nav \in {DesktopNavigator, PhoneNavigator} :
        Construct(nav, 1280, Num(DprUnit), [width |-> 600, height |-> 400])

NextRound ==
    \/ \E stream \in Streams : RoundStarted(stream)
    \/ Sample
    \/ \E seed \in Seeds : RoundCrashed(seed)
    \/ (round.phase = "crashed" /\ ghost.updates < MaxRoundUpdates /\ Update)
    \/ (round.phase = "crashed" /\ Draw)

SpecRound == InitRound /\ [][NextRound]_vars

-----------------------------------------------------------------------------
(* The page: every operation of the track, the loop and the explosion, in  *)
(* any order, on short trajectories.                                       *)

MaxSamples == 2
MaxUpdates == 2

PageSamples == { <<0, 100>>, <<150, 600>> }

PageSeeds == {0, 2}

InitPage ==
    \E nav \in {DesktopNavigator, PhoneNavigator} :
        Construct(nav, 1280, Num(2 * DprUnit), [width |-> 600, height |-> 400])

Next ==
    \/ \E s \in PageSamples :
          Len(ghost.inserted) < MaxSamples /\ AddPoint(s[1], s[2])
    \/ Reset
    \/ StartAnimation
    \/ StopAnimation
    \/ \E id \in frames.pending : FrameCallback(id)
    \/ GetRocketPosition
    \/ \E seed \in PageSeeds : NewExplosionParticles(150, 120, seed)
    \/ (ghost.updates < MaxUpdates /\ Update)
    \/ Draw

Spec == InitPage /\ [][Next]_vars

-----------------------------------------------------------------------------
(* The bet panel's specification. *)

InitUI ==
    Construct(DesktopNavigator, 1280, Num(DprUnit),
              [width |-> 300, height |-> 200])

SpecUI == InitUI /\ [][NextUI]_vars

SpecSocket == InitUI /\ [][NextSocket]_vars

SpecEmitter == InitUI /\ [][NextEmitter]_vars

-----------------------------------------------------------------------------
(* Drawing: the page built on an attached canvas, on a detached one (its   *)
(* layout box is 0 x 0) or with no canvas element at all, then a few       *)
(* samples, an explosion and every draw operation in any order.            *)

Built == thrown = "none"

InitDrawing ==
    \E nav \in {DesktopNavigator, PhoneNavigator} :
        \/ Construct(nav, 1280, Num(DprUnit), [width |-> 300, height |-> 200])
        \/ Construct(nav, 1280, Num(DprUnit), [width |-> 0, height |-> 0])
        \/ ConstructThrows(nav, 1280, Num(DprUnit))

NextDrawing ==
    \/ /\ Built
       /\ Len(ghost.inserted) < MaxSamples
       /\ AddPoint(Tick(10 * Len(ghost.inserted))[1],
                   Tick(10 * Len(ghost.inserted))[2])
    \/ Built /\ Reset
    \/ \E pulse \in Pulses : Built /\ DrawCurve(pulse)
    \/ Built /\ Clear
    \/ Built /\ DrawBackground
    \/ Built /\ DrawGrid
    \/ Built /\ NewExplosionParticles(150, 120, 0)
    \/ Built /\ ghost.updates < MaxUpdates /\ Update
    \/ Built /\ Draw

SpecDrawing == InitDrawing /\ [][NextDrawing]_vars

-----------------------------------------------------------------------------
(* The profile: a desktop page whose window is then resized to a phone's   *)
(* width, with the track's and the explosion's operations in any order.    *)

MaxProfileEvents == 1

InitProfile ==
    Construct(DesktopNavigator, 1280, Num(DprUnit),
              [width |-> 300, height |-> 200])

NextProfile ==
    \/ /\ ghost.events < MaxProfileEvents
       /\ WindowResized(375, [width |-> 600, height |-> 400])
    \/ Elapse(150)
    \/ \E k \in DOMAIN resizeTimeout.timers : ResizeTimeoutFires(k)
    \/ Resize
    \/ /\ Len(ghost.inserted) < MaxSamples
       /\ AddPoint(Tick(10 * Len(ghost.inserted))[1],
                   Tick(10 * Len(ghost.inserted))[2])
    \/ Reset
    \/ DrawCurve(100)
    \/ NewExplosionParticles(150, 120, 0)
    \/ ghost.updates < MaxUpdates /\ Update
    \/ Draw

SpecProfile == InitProfile /\ [][NextProfile]_vars

-----------------------------------------------------------------------------
(* Properties *)

\* C1: after any sequence of addPoint calls the buffer holds at most 300
\* points, and it is the last min(n, 300) of the n samples inserted since the
\* last reset, in insertion order (the oldest are evicted first).
C1_BufferIsLast300 ==
    LET n == Len(ghost.inserted)
        k == IF n < 300 THEN n ELSE 300
    IN  /\ Len(points) <= 300
        /\ Len(points) = k
        /\ \A i \in 1 .. k :
              /\ points[i].time = ghost.inserted[n - k + i].time
              /\ points[i].multiplier = ghost.inserted[n - k + i].multiplier

\* Two samples were evicted from a full buffer, the first of them (-3 s, 1x).
C1_Witness ==
    /\ Len(ghost.inserted) = 302
    /\ Len(points) = 300
    /\ ghost.inserted[1] = [time |-> -30, multiplier |-> 100]
    /\ points[1].time = 2

\* x = min(time/30 * width, width) and y = height - min((m-1)/10 * height,
\* height), cross-multiplied.
mapsAsSpecified(p) ==
    /\ p.x * 30 * TimeUnit =
          Min(p.time * width, 30 * TimeUnit * width)
    /\ (height - p.y) * 10 * MultUnit =
          Min((p.multiplier - MultUnit) * height, 10 * MultUnit * height)

validSample(p) == p.time >= 0 /\ p.multiplier >= MultUnit

\* x does not decrease with time, y does not increase with the multiplier.
monotonic(p, q) ==
    /\ p.time <= q.time => p.x <= q.x
    /\ q.time <= p.time => q.x <= p.x
    /\ p.multiplier <= q.multiplier => p.y >= q.y
    /\ q.multiplier <= p.multiplier => q.y >= p.y

\* C2: for every sample with time >= 0 and multiplier >= 1 addPoint stores
\* x = min(time/30 * width, width), y = height - min((m-1)/10 * height, height);
\* the mapping is monotonic and clamped; (0, 1) is stored at (0, height),
\* (30, 11) at (width, 0), and (45, 11) at the same x as (30, 11).  Each
\* buffered point is compared with its successor and with the oldest point.
C2_MappingMonotonicClamped ==
    \A i \in DOMAIN points :
        LET p == points[i]
        IN  validSample(p) =>
              /\ mapsAsSpecified(p)
              /\ 0 <= p.x /\ p.x <= width /\ 0 <= p.y /\ p.y <= height
              /\ (p.time = 0 /\ p.multiplier = 100) => (p.x = 0 /\ p.y = height)
              /\ (p.time = 300 /\ p.multiplier = 1100) => (p.x = width /\ p.y = 0)
              /\ (p.time = 450 /\ p.multiplier = 1100) => (p.x = width /\ p.y = 0)
              /\ \A j \in {1, i + 1} \cap DOMAIN points :
                    validSample(points[j]) => monotonic(p, points[j])

\* A full buffer: (45, 11), stored at the right edge, then the ticks up to
\* 29.9 s, the last of them left of the right edge and at the top edge.
C2_Witness ==
    /\ Len(points) = 300
    /\ points[1] = [x |-> width, y |-> 0, multiplier |-> 1100, time |-> 450]
    /\ points[300].time = 299
    /\ points[300].x < width
    /\ points[300].y = 0

\* C3 (as claimed): a sample with time < 0 or multiplier < 1 is appended with
\* x in [0, width] and y in [0, height].
C3_InvalidSampleClamped ==
    \A i \in DOMAIN points :
        LET p == points[i]
        IN  (p.time < 0 \/ p.multiplier < MultUnit) =>
              /\ 0 <= p.x /\ p.x <= width
              /\ 0 <= p.y /\ p.y <= height

\* C4: on a device that reports its core count and memory, the profile is the
\* low-end one exactly when cores < 4 or memory < 2 or viewport width < 768,
\* and the high-end one otherwise: a function of the three signals read at
\* construction.
C4_ProfileByThresholds ==
    LET cores == ghost.signals.nav.hardwareConcurrency
        memory == ghost.signals.nav.deviceMemory
        low == cores.value < 4 \/ memory.value < 2 \/ ghost.signals.viewport < 768
    IN  (cores.defined /\ memory.defined) =>
          performanceSettings =
            IF low
            THEN [particleCount |-> 10, frameRate |-> 30,
                  enableShadows |-> FALSE, enableBlur |-> FALSE]
            ELSE [particleCount |-> 20, frameRate |-> 60,
                  enableShadows |-> TRUE, enableBlur |-> TRUE]

\* A device exactly on the three thresholds is high-end, and stays so after
\* the window has narrowed and the canvas has been resized.
C4_Witness ==
    /\ ghost.signals.nav = [hardwareConcurrency |-> Num(4), deviceMemory |-> Num(2)]
    /\ ghost.signals.viewport = 768
    /\ performanceSettings.particleCount = 20
    /\ innerWidth = 375
    /\ ghost.lastOp = "resizeTimer"

\* C5 (as claimed): when hardwareConcurrency or deviceMemory is undefined the
\* profile is the low-end one.
C5_MissingSignalIsLowEnd ==
    (\/ ~ghost.signals.nav.hardwareConcurrency.defined
     \/ ~ghost.signals.nav.deviceMemory.defined) =>
        performanceSettings =
            [particleCount |-> 10, frameRate |-> 30,
             enableShadows |-> FALSE, enableBlur |-> FALSE]

\* C6: once reset() has run, and until the next addPoint, the buffer is empty
\* and getRocketPosition returns null, whatever the loop and the explosion do
\* in between.
C6_ResetEmptiesUntilAdd ==
    (ghost.resets /\ Len(ghost.inserted) = 0) =>
        (Len(points) = 0 /\ getRocketPosition = Null)

\* reset() discarded the buffered points, then the loop was started again.
C6_Witness ==
    /\ ghost.resets
    /\ ghost.dropped
    /\ Len(ghost.inserted) = 0
    /\ ghost.lastOp = "startAnimation"
    /\ getRocketPosition = Null

\* C7: a newly constructed explosion is active and holds exactly particleCount
\* particles (the profile's), each at the origin with life 1.0.
C7_ConstructedBatch ==
    (ghost.burst # Null /\ ghost.updates = 0) =>
        /\ isActive
        /\ Len(particles) = performanceSettings.particleCount
        /\ \A i \in DOMAIN particles :
              /\ particles[i].x = [origin |-> ghost.burst.x, steps |-> 0]
              /\ particles[i].y = ghost.burst.y * PosUnit
              /\ particles[i].life = LifeUnit

\* An explosion was just constructed at (150, 120) on the low-end profile.
C7_Witness ==
    /\ ghost.lastOp = "createParticles"
    /\ ghost.burst = [isNull |-> FALSE, x |-> 150, y |-> 120]
    /\ performanceSettings.particleCount = 10
    /\ Len(particles) = 10

RECURSIVE lifeOfFirst(_, _)
lifeOfFirst(batch, k) ==
    IF k = 0 THEN 0 ELSE lifeOfFirst(batch, k - 1) + batch[k].life

\* The sum of the lives of the particles in the batch.
TotalLife(batch) == lifeOfFirst(batch, Len(batch))

\* C8: every update() of an active explosion strictly decreases the sum of the
\* lives of its particles, and no update() or draw() increases it.
C8_TotalLifeDecreases ==
    [][/\ (ghost'.lastOp = "update" /\ isActive) =>
              TotalLife(particles') < TotalLife(particles)
       /\ (ghost'.lastOp \in {"update", "draw"}) =>
              TotalLife(particles') <= TotalLife(particles)]_vars

\* An update has removed some particles of an explosion and left others.
C8_Witness ==
    /\ ghost.lastOp = "update"
    /\ isActive
    /\ Len(particles) > 0
    /\ Len(particles) < performanceSettings.particleCount

\* C9: an explosion is inactive after at most 67 updates (ceil(1 / 0.015), the
\* smallest decay rate being 0.015): while it is active it has been updated
\* fewer than 67 times, and no particle decays slower than 0.015 per update.
C9_InactiveWithin67 ==
    /\ isActive => ghost.updates < 67
    /\ isActive => ghost.updates * 15 * LifeUnit < 1000 * LifeUnit
    /\ \A i \in DOMAIN particles : particles[i].decay * 1000 >= 15 * LifeUnit

\* An explosion of slowest-decaying particles went inactive at its 67th update.
C9_Witness ==
    /\ ~isActive
    /\ ghost.updates = 67
    /\ ghost.lastOp = "update"

\* C10: once roundCrashed has been signalled after n <= 300 samples of a round
\* the buffer holds n points and getRocketPosition reports the multiplier of
\* the last sample; the explosion was built at the head position, active and
\* with particleCount particles; and building, updating and drawing the
\* explosion never change the buffer.
C10_CrashKeepsTrack ==
    /\ [](round.phase = "crashed" =>
            /\ round.samples <= 300 => Len(points) = round.samples
            /\ getRocketPosition # Null
            /\ getRocketPosition.multiplier
                  = ghost.inserted[Len(ghost.inserted)].multiplier
            /\ ghost.burst = [isNull |-> FALSE, x |-> getRocketPosition.x,
                              y |-> getRocketPosition.y]
            /\ ghost.updates = 0 =>
                  /\ isActive
                  /\ Len(particles) = performanceSettings.particleCount
                  /\ \A i \in DOMAIN particles :
                        /\ particles[i].x.origin = getRocketPosition.x
                        /\ particles[i].y = getRocketPosition.y * PosUnit)
    /\ [][ghost'.lastOp \in {"roundCrashed", "update", "draw"} =>
              points' = points]_vars

\* The four samples (0, 1.0) .. (15, 6.0), the crash, then an update.
C10_Witness ==
    /\ round = [phase |-> "crashed", stream |-> "scenario", samples |-> 4]
    /\ Len(points) = 4
    /\ getRocketPosition.multiplier = 600
    /\ ghost.updates > 0
    /\ isActive

-----------------------------------------------------------------------------
(* C11 .. C20 *)

\* C11: resize() is idempotent while the layout box is unchanged: a second
\* call leaves the logical width and height, the backing store's size (the
\* logical size times the pixel ratio, as the canvas stores it) and the
\* transform's scale (the pixel ratio, not its square) as the first call left
\* them.
C11_ResizeIdempotent ==
    /\ [](ghost.resizeRun >= 1 =>
            /\ width = rect.width
            /\ height = rect.height
            /\ element.width = (width * dpr) \div DprUnit
            /\ element.height = (height * dpr) \div DprUnit
            /\ element.styleWidth = width
            /\ element.styleHeight = height
            /\ ctx.scale = dpr)
    /\ [][(ghost.resizeRun >= 1 /\ ghost'.resizeRun = 2) =>
            (UNCHANGED <<width, height, element>> /\ ctx'.scale = ctx.scale)]_vars

\* A resize event, its timer's resize() and a direct resize() after it, on a
\* 1.5x display whose box is 375 x 211.
C11_Witness ==
    /\ ghost.resizeRun = 2
    /\ ghost.lastOp = "resize"
    /\ ghost.events > 0
    /\ dpr = 3
    /\ width = 375
    /\ element.width = 562
    /\ ctx.scale = 3

\* C12: the resize handler is debounced.  At most one timer is pending; the
\* pending timer is the last event's (each event cancels the one before);
\* resize() runs from a timer only 150 ms after the last event; and a burst of
\* events causes one resize() call, after the last of them.
C12_ResizeDebounced ==
    /\ Len(resizeTimeout.timers) <= 1
    /\ \A k \in DOMAIN resizeTimeout.timers :
          resizeTimeout.timers[k] = 150 - ghost.quiet
    /\ ghost.lastOp = "resizeTimer" => ghost.quiet = 150
    /\ ghost.events > 0 =>
          ghost.fired = (IF Len(resizeTimeout.timers) = 0 THEN 1 ELSE 0)

\* Three events, none later than 150 ms after the one before, then one resize().
C12_Witness ==
    /\ ghost.burstLen = 3
    /\ ghost.fired = 1
    /\ ghost.lastOp = "resizeTimer"
    /\ resizeTimeout.timers = <<>>
    /\ width = rect.width

\* C13: startAnimation() changes nothing while the loop runs, and whatever the
\* order of start, stop, reset and frame callbacks, at most one frame request
\* is outstanding: the one animationId names, and only while the loop runs.
C13_OneFrameRequest ==
    /\ [](/\ Cardinality(frames.pending) <= 1
          /\ frames.pending # {} =>
                isAnimating /\ frames.pending = {animationId})
    /\ [][(isAnimating /\ ghost'.lastOp = "startAnimation (running)") =>
            UNCHANGED <<isAnimating, animationId, frames, points>>]_vars

\* startAnimation() called on a loop that has already run a frame.
C13_Witness ==
    /\ ghost.lastOp = "startAnimation (running)"
    /\ isAnimating
    /\ animationId = 2
    /\ frames.pending = {2}

\* C14: stopAnimation() and reset() act at once: when either returns the loop
\* is idle and no frame request is pending, and from an idle loop nothing but
\* startAnimation() issues a request.
C14_StopIsSynchronous ==
    /\ [](/\ ghost.lastOp \in {"stopAnimation", "reset"} => ~isAnimating
          /\ ~isAnimating => frames.pending = {})
    /\ [][(~isAnimating /\ ghost'.lastOp # "startAnimation") =>
            /\ ~isAnimating'
            /\ frames' = frames]_vars

\* stopAnimation() with the second frame's request pending.
C14_Witness ==
    /\ ghost.lastOp = "stopAnimation"
    /\ ~isAnimating
    /\ animationId = 2
    /\ frames = [pending |-> {}, nextId |-> 3]

\* C15: stopAnimation() and startAnimation() leave the buffer as it is.
C15_StopKeepsBuffer ==
    [][ghost'.lastOp \in {"stopAnimation", "startAnimation",
                          "startAnimation (running)"} =>
          points' = points]_vars

\* A running loop stopped with two points buffered.
C15_Witness ==
    /\ ghost.lastOp = "stopAnimation"
    /\ animationId > 0
    /\ ~isAnimating
    /\ Len(points) = 2

\* C16: getRocketPosition() returns null exactly when the buffer is empty;
\* otherwise the x, y and multiplier of the newest point, which is the last
\* sample added; the angle is 0 with one point, and with more it is the
\* direction of the step from the point before the newest to the newest.  The
\* call changes no state.
C16_HeadPose ==
    /\ [](LET pose == getRocketPosition
              n == Len(points)
          IN  /\ pose = Null <=> n = 0
              /\ n > 0 =>
                    /\ pose.x = points[n].x
                    /\ pose.y = points[n].y
                    /\ pose.multiplier = points[n].multiplier
                    /\ pose.multiplier =
                          ghost.inserted[Len(ghost.inserted)].multiplier
              /\ n = 1 => pose.angle = ZeroAngle
              /\ n > 1 =>
                    LET stepx == points[n].x - points[n - 1].x
                        stepy == points[n].y - points[n - 1].y
                    IN  /\ pose.angle.dy * stepx = pose.angle.dx * stepy
                        /\ pose.angle.dy * stepy >= 0
                        /\ pose.angle.dx * stepx >= 0
                        /\ (stepx = 0 /\ stepy = 0) => pose.angle = ZeroAngle
                        /\ gcd(Abs(pose.angle.dy), Abs(pose.angle.dx)) = 1)
    /\ [][ghost'.lastOp = "getRocketPosition" =>
            UNCHANGED <<surfaceVars, ctx, points, loopVars, burstVars>>]_vars

\* getRocketPosition() with two points buffered, the newer up and to the right
\* of the older (y grows downwards).
C16_Witness ==
    /\ ghost.lastOp = "getRocketPosition"
    /\ Len(points) = 2
    /\ getRocketPosition.angle = [dy |-> -2, dx |-> 3]
    /\ getRocketPosition.multiplier = 600

\* C17: in every reachable state the buffered points are in non-decreasing
\* order of elapsed time.
C17_PointsInTimeOrder ==
    \A i \in 1 .. Len(points) - 1 : points[i].time <= points[i + 1].time

\* C20: once an explosion is constructed, isActive holds exactly when its
\* batch is non-empty; update() and draw() on an inactive explosion change
\* nothing (draw paints nothing), so it never becomes active again.
C20_ActiveIffParticles ==
    /\ [](ghost.burst # Null => (isActive <=> Len(particles) > 0))
    /\ [][(ghost.burst # Null /\ ~isActive
           /\ ghost'.lastOp \in {"update", "draw"}) =>
            /\ ~isActive'
            /\ UNCHANGED <<particles, ctx>>
            /\ ghost'.painted = <<>>
            /\ ghost'.updates = ghost.updates]_vars

\* draw() on an explosion whose last particle has expired.
C20_Witness ==
    /\ ghost.burst # Null
    /\ ~isActive
    /\ particles = <<>>
    /\ ghost.updates > 0
    /\ ghost.lastOp = "draw"

\* C18: the profile is the one detected at construction and no operation
\* changes it: not resize(), not a window resize that changes the viewport
\* width, not addPoint, reset or the track's draw, not an explosion's
\* construction, update or draw.  The track's and the explosion's operations
\* leave the surface's logical width and height alone.
C18_ProfileFixedAtConstruction ==
    /\ [](performanceSettings =
            detectPerformance(ghost.signals.nav, ghost.signals.viewport))
    /\ [][performanceSettings' = performanceSettings]_vars
    /\ [][ghost'.lastOp \in {"addPoint", "reset", "drawCurve",
                             "createParticles", "update", "draw"} =>
            (width' = width /\ height' = height)]_vars

\* A desktop's page after its window shrank to 375 px and the canvas was
\* resized to 600 x 400: the track is drawn with the desktop profile's shadow.
C18_Witness ==
    /\ innerWidth = 375
    /\ ghost.signals.viewport = 1280
    /\ ghost.fired = 1
    /\ width = 600
    /\ performanceSettings.enableShadows
    /\ ~detectPerformance(navigator, innerWidth).enableShadows
    /\ ghost.lastOp = "drawCurve"
    /\ Len(ghost.painted) = 3
    /\ ghost.painted[1].shadowBlur = 10
    /\ isActive

\* C19: when the drawing target is unavailable, with the canvas element
\* missing or detached, construction and the draw operations raise no error.
C19_UnavailableTargetNoError ==
    (element = Null \/ (rect.width = 0 /\ rect.height = 0)) => thrown = "none"

-----------------------------------------------------------------------------
(* C21 .. C29 *)

\* The particles of `batch` whose life stays above 0 when lowered by their own
\* decay, and the index in `batch` of the k-th of them.
outlives(batch) == {i \in DOMAIN batch : batch[i].life - batch[i].decay > 0}

kthOutliving(batch, k) ==
    CHOOSE i \in outlives(batch) :
        Cardinality({j \in outlives(batch) : j <= i}) = k

\* C21: an update() of an active explosion lowers each particle's life by that
\* particle's decay and keeps, in order, exactly the particles whose life is
\* then above 0; it adds none and changes no decay.  Every particle in the
\* batch has a life in (0, 1].
C21_LifeStep ==
    /\ [](\A i \in DOMAIN particles :
            particles[i].life > 0 /\ particles[i].life <= LifeUnit)
    /\ [][(ghost'.lastOp = "update" /\ isActive) =>
            /\ Len(particles') = Cardinality(outlives(particles))
            /\ Len(particles') <= Len(particles)
            /\ \A k \in DOMAIN particles' :
                  LET before == particles[kthOutliving(particles, k)]
                  IN  /\ particles'[k].life = before.life - before.decay
                      /\ particles'[k].decay = before.decay
                      /\ particles'[k].color = before.color
                      /\ particles'[k].size = before.size]_vars

\* An update left particles of different lives and removed others.
C21_Witness ==
    /\ ghost.lastOp = "update"
    /\ isActive
    /\ Len(particles) < performanceSettings.particleCount
    /\ \E i, j \in DOMAIN particles :
          /\ particles[i].life < particles[j].life
          /\ particles[i].decay > particles[j].decay

\* C22: while the loop runs, between callbacks exactly one frame request is
\* pending, the one animationId names; a frame callback on a running loop
\* leaves the loop running with a new request pending.
C22_FrameRequestedAgain ==
    /\ [](isAnimating =>
            (Cardinality(frames.pending) = 1 /\ animationId \in frames.pending))
    /\ [][(isAnimating /\ ghost'.lastOp = "frame") =>
            /\ isAnimating'
            /\ animationId' = frames.nextId
            /\ frames' = [pending |-> {frames.nextId},
                          nextId |-> frames.nextId + 1]]_vars

\* The second callback of a running loop has requested the third frame.
C22_Witness ==
    /\ ghost.lastOp = "frame"
    /\ isAnimating
    /\ animationId = 3
    /\ frames = [pending |-> {3}, nextId |-> 4]

\* C23: when the track's draw() has returned the context's shadowBlur is 0,
\* whatever the buffer's length and the profile, and it is 0 for every
\* operation drawn after it (the head's two dots included).
C23_GlowResetAfterDraw ==
    Built =>
        /\ ctx.shadowBlur = 0
        /\ ghost.lastOp = "drawCurve" =>
              \A k \in DOMAIN ghost.painted :
                  k > 1 => ghost.painted[k].shadowBlur = 0

\* A two-point track drawn with the desktop profile's glow.
C23_Witness ==
    /\ ghost.lastOp = "drawCurve"
    /\ Len(points) = 2
    /\ performanceSettings.enableShadows
    /\ Len(ghost.painted) = 3
    /\ ghost.painted[1].shadowBlur = 10
    /\ ctx.shadowColor = "#e53e3e"
    /\ ctx.shadowBlur = 0

\* C24: the explosion's draw() fills each particle with an opacity equal to
\* that particle's life and with its colour, and when it returns the
\* context's opacity, its fill style and its save stack are what they were
\* before the call.
C24_DrawRestoresOpacity ==
    [][(ghost'.lastOp = "draw" /\ isActive) =>
          /\ Len(ghost'.painted) = Len(particles)
          /\ \A k \in DOMAIN particles :
                /\ ghost'.painted[k].globalAlpha = particles[k].life
                /\ ghost'.painted[k].fillStyle = particles[k].color
          /\ ctx'.globalAlpha = ctx.globalAlpha
          /\ ctx'.fillStyle = ctx.fillStyle
          /\ ctx'.saved = ctx.saved]_vars

\* Twice-updated particles drawn over the background: each at its own faded
\* opacity, the context opaque and its fill the background's gradient after.
C24_Witness ==
    /\ ghost.lastOp = "draw"
    /\ isActive
    /\ ghost.updates = 2
    /\ Len(ghost.painted) = Len(particles)
    /\ ghost.painted[1].globalAlpha = particles[1].life
    /\ ghost.painted[1].globalAlpha < LifeUnit
    /\ ctx.globalAlpha = LifeUnit
    /\ ctx.fillStyle = backgroundGradient

\* C25: every handler of the bet panel returns: no call of the 'input'
\* listener, the main action, placeBet, setGameState or handlePlayerCashedOut
\* ends in an error that reaches the event loop; in particular
\* validateBetAmount returns in 'waiting' and 'starting' with isPlaying false.
C25_HandlersReturn ==
    ui.uncaught = "none"

\* The step is a call of placeBet: placeBet() itself, or a click or Enter in
\* 'waiting' or 'starting'.
placeBetRan ==
    \/ ghost'.lastOp = "placeBet"
    \/ /\ ghost'.lastOp \in {"click", "enter"}
       /\ ui.gameState \in {"waiting", "starting"}

\* The bet the field holds.
fieldBet == JsOr(parseFloat(ui.betAmount), 0)

\* C26: the balance is never negative, and a call of placeBet that changes
\* the balance, currentBet or isPlaying, or that sends anything, found a bet
\* of at least 1 and at most the balance, deducts exactly that bet, records
\* it as currentBet, sets isPlaying and sends one place_bet of that amount.
C26_BetWithinBalance ==
    /\ [](ui.playerBalance >= 0)
    /\ [][placeBetRan
            /\ \/ ui'.playerBalance # ui.playerBalance
               \/ ui'.currentBet # ui.currentBet
               \/ ui'.isPlaying # ui.isPlaying
               \/ socket' # socket
          => /\ fieldBet >= MoneyUnit
             /\ fieldBet <= ui.playerBalance
             /\ ui'.playerBalance = ui.playerBalance - fieldBet
             /\ ui'.currentBet = fieldBet
             /\ ui'.isPlaying
             /\ socket'.clock = socket.clock + 1
             /\ \/ /\ socket.isConnected
                   /\ socket'.received = Append(socket.received,
                          [event |-> "place_bet", amount |-> fieldBet,
                           timestamp |-> socket.clock])
                \/ /\ ~socket.isConnected
                   /\ socket'.received = socket.received]_vars

\* placeBet() has taken a bet of the whole balance and sent it to the server.
C26_Witness ==
    /\ ghost.lastOp = "placeBet"
    /\ ui.isPlaying
    /\ ui.notification = "success"
    /\ ui.currentBet = 1000 * MoneyUnit
    /\ ui.playerBalance = 0
    /\ Len(socket.received) = 1
    /\ socket.received[1].amount = 1000 * MoneyUnit

\* C27: a click or Enter in 'waiting' or 'starting' by a player who is
\* already playing deducts nothing and sends nothing.
C27_OneBetPerRound ==
    [][/\ ghost'.lastOp \in {"click", "enter"}
       /\ ui.gameState \in {"waiting", "starting"}
       /\ ui.isPlaying
       => /\ ui'.playerBalance = ui.playerBalance
          /\ socket' = socket]_vars

\* C28: send forwards a message only while isConnected is set: a message
\* reaches the server only in the step that sends it, and only with the
\* connection up; a message sent with the connection down is warned about,
\* is never queued and is never among the messages the server received,
\* however often the connection returns afterwards.
C28_SendOnlyWhileConnected ==
    /\ [](/\ socket.sendBuffer = <<>>
          /\ \A i \in 1..Len(socket.warned), j \in 1..Len(socket.received) :
                socket.warned[i] # socket.received[j])
    /\ [][/\ socket'.received # socket.received
             => /\ socket.isConnected
                /\ socket'.clock = socket.clock + 1
                /\ Len(socket'.received) = Len(socket.received) + 1
          /\ socket'.clock # socket.clock /\ ~socket.isConnected
             => /\ socket'.received = socket.received
                /\ Len(socket'.warned) = Len(socket.warned) + 1]_vars

\* A place_bet was sent with the connection down, the connection has returned
\* and a later message has reached the server.
C28_Witness ==
    /\ socket.isConnected
    /\ \E i \in 1..Len(socket.warned), j \in 1..Len(socket.received) :
          /\ socket.warned[i].event = "place_bet"
          /\ socket.received[j].timestamp > socket.warned[i].timestamp

\* C29: emit has called every callback that was registered when it started,
\* once per registration and in registration order, whatever the callbacks
\* threw or removed.
C29_EmitCallsAllRegistered ==
    ghost.lastOp = "emit" => socket.invoked = socket.atEmit

====
